---- MODULE Spec2Model ----
(* ArgStore of kyoh86/denops-arg-store (mod.ts): a Map from a function name  *)
(* (or the cross-function marker "_") to a flat record of named argument     *)
(* values, with set / patch / merge / read operations and the untyped        *)
(* dispatcher entry points built on them.                                    *)
EXTENDS Integers, Sequences, FiniteSets, TLC

(***************************************************************************)
(* Untyped (unknown) values.  A JavaScript value is modelled as a tagged   *)
(* cell: undefined, a number, a string, or a plain object (a record from   *)
(* property names to values).                                              *)
(***************************************************************************)
EmptyRec == [n \in {} |-> 0]

Undef == [kind |-> "undef", num |-> 0, str |-> "", rec |-> EmptyRec]

Num(i) == [kind |-> "num", num |-> i, str |-> "", rec |-> EmptyRec]

Str(s) == [kind |-> "str", num |-> 0, str |-> s, rec |-> EmptyRec]

Rec(r) == [kind |-> "rec", num |-> 0, str |-> "", rec |-> r]

\* The marker used instead of a function name to address all functions.
CrossFunc == "_"

(***************************************************************************)
(* Bounds and input sets.                                                  *)
(***************************************************************************)
\* Number of calls made on one ArgStore, counted from its construction.
MaxCalls == 2

Funcs == {CrossFunc, "f", "g"}

ArgNames == {"a", "b", "old"}

Vals == {Num(1), Num(2)}

\* Records handed to the patch operations and used as per-call overrides.
PatchRecs ==
  { EmptyRec,
    ("a" :> Num(2)),
    ("b" :> Num(2)),
    ("a" :> Num(1)) @@ ("old" :> Num(1)) }

\* Records used inside the argSets of patchArgs.
ArgSetRecs == {r \in PatchRecs : "a" \in DOMAIN r}

\* Values that are not plain objects (what a caller can send by mistake).
NonRecs == {Num(1)}

\* Values that are not strings.
NonStrs == {Num(1)}

\* argSets of patchArgs: a record per function key present.
ArgSets == UNION {[D -> ArgSetRecs] : D \in SUBSET Funcs}

\* Untyped inputs of patchArgsDispatcher.
UArgSets ==
  NonRecs \cup
  {Rec(u) : u \in UNION {[D -> {Rec("b" :> Num(2))} \cup NonRecs] : D \in SUBSET Funcs}}

\* Caller-declared shapes of makeDispatcher: is.ObjectOf({<name>: is.Number}).
Preds == {"a", "b"}

\* All orders in which the keys of a set can be enumerated.
Orders(S) ==
  {q \in [1..Cardinality(S) -> S] : \A i, j \in 1..Cardinality(S) : q[i] = q[j] => i = j}

(***************************************************************************)
(* unknownutil predicates and ensure.                                      *)
(***************************************************************************)
isString(u) == u.kind = "str"

\* isArgs = is.RecordOf(is.Unknown, is.String): a plain object; every key of a
\* record of the model is a string, every value is accepted.
isArgs(u) == u.kind = "rec"

\* is.RecordOf(isArgs): a plain object each of whose values satisfies isArgs.
isArgSet(u) == u.kind = "rec" /\ \A k \in DOMAIN u.rec : isArgs(u.rec[k])

\* is.ObjectOf({p: is.Number}), the shape a caller of makeDispatcher declares.
PredHolds(p, r) == p \in DOMAIN r /\ r[p].kind = "num"

(***************************************************************************)
(* Map and object primitives.                                              *)
(***************************************************************************)
\* this.#store.get(func) || {}
get(s, func) == IF func \in DOMAIN s THEN s[func] ELSE EmptyRec

\* this.#store.set(func, args)
set(s, func, args) == [k \in DOMAIN s \cup {func} |-> IF k = func THEN args ELSE s[k]]

\* { ...a, ...b }: own properties of a, then those of b over them.
Spread(a, b) == [n \in DOMAIN a \cup DOMAIN b |-> IF n \in DOMAIN b THEN b[n] ELSE a[n]]

\* ...override where override may be undefined.
SpreadOpt(a, o) == IF o.kind = "rec" THEN Spread(a, o.rec) ELSE a

(***************************************************************************)
(* ArgStore methods.                                                       *)
(***************************************************************************)
\* Variant: an arg that is already set keeps its value (args[arg] ??= value).
setFuncArgKeepsFirst(s, func, arg, value) ==
  LET args == get(s, func)
  IN  set(s, func, Spread(arg :> value, args))

setFuncArg(s, func, arg, value) ==
  LET args == get(s, func)
  IN  set(s, func, Spread(args, arg :> value))

\* Variant: the previous record is spread, { ...old, ...args }.
patchFuncArgsSpreadsOld(s, func, args) ==
  LET old == get(s, func)
  IN  set(s, func, Spread(old, args))

patchFuncArgs(s, func, args) ==
  LET old == get(s, func)
  IN  set(s, func, Spread("old" :> Rec(old), args))

\* Variant: the loop runs over the keys of the store as well as the argSet's.
patchArgsTouchesAll(s, argSet, order) ==
  [k \in DOMAIN s \cup DOMAIN argSet |->
     Spread("old" :> Rec(get(s, k)), IF k \in DOMAIN argSet THEN argSet[k] ELSE EmptyRec)]

\* Variant: every key is patched over the record of the first key enumerated.
patchArgsSharesOld(s, argSet, order) ==
  [k \in DOMAIN s \cup DOMAIN argSet |->
     IF k \in DOMAIN argSet
     THEN Spread("old" :> Rec(get(s, Head(order))), argSet[k])
     ELSE s[k]]

RECURSIVE patchArgs(_, _, _)
\* for (const func in argSet) { ... }, order being the enumeration order.
patchArgs(s, argSet, order) ==
  IF order = <<>> THEN s
  ELSE LET func == Head(order)
           old == get(s, func)
       IN  patchArgs(set(s, func, Spread("old" :> Rec(old), argSet[func])),
                     argSet, Tail(order))

\* Variant: the spreads of cross and target are swapped.
getArgsCrossWins(s, func, override) ==
  LET cross == get(s, CrossFunc)
      target == get(s, func)
  IN  SpreadOpt(Spread(target, cross), override)

\* Variant: the override is spread first, under the stored records.
getArgsStoredWins(s, func, override) ==
  LET cross == get(s, CrossFunc)
      target == get(s, func)
  IN  Spread(SpreadOpt(EmptyRec, override), Spread(cross, target))

getArgs(s, func, override) ==
  LET cross == get(s, CrossFunc)
      target == get(s, func)
  IN  SpreadOpt(Spread(cross, target), override)

(***************************************************************************)
(* Dispatcher entry points.  A call either completes or throws; the result *)
(* carries the store it leaves behind.                                     *)
(***************************************************************************)
\* (uFunc, uArg, value) => this.setFuncArg(ensure(uFunc, is.String), ensure(uArg, is.String), value)
setFuncArgDispatcher(s, uFunc, uArg, value) ==
  IF ~isString(uFunc) THEN [store |-> s, threw |-> TRUE]
  ELSE IF ~isString(uArg) THEN [store |-> s, threw |-> TRUE]
  ELSE [store |-> setFuncArg(s, uFunc.str, uArg.str, value), threw |-> FALSE]

\* (uFunc, uArgs) => this.patchFuncArgs(ensure(uFunc, is.String), ensure(uArgs, isArgs))
patchFuncArgsDispatcher(s, uFunc, uArgs) ==
  IF ~isString(uFunc) THEN [store |-> s, threw |-> TRUE]
  ELSE IF ~isArgs(uArgs) THEN [store |-> s, threw |-> TRUE]
  ELSE [store |-> patchFuncArgs(s, uFunc.str, uArgs.rec), threw |-> FALSE]

\* The typed argSet an accepted untyped input denotes.
AsArgSet(uArgs) == [k \in DOMAIN uArgs.rec |-> uArgs.rec[k].rec]

RECURSIVE patchArgsCheckingEachKey(_, _, _)
\* Variant: each key's value is validated only when the loop reaches it.
patchArgsCheckingEachKey(s, uArgs, order) ==
  IF ~isArgs(uArgs) THEN [store |-> s, threw |-> TRUE]
  ELSE IF order = <<>> THEN [store |-> s, threw |-> FALSE]
  ELSE IF ~isArgs(uArgs.rec[Head(order)]) THEN [store |-> s, threw |-> TRUE]
  ELSE patchArgsCheckingEachKey(
         patchFuncArgs(s, Head(order), uArgs.rec[Head(order)].rec), uArgs, Tail(order))

\* (uArgs) => this.patchArgs(ensure(uArgs, is.RecordOf(isArgs)))
patchArgsDispatcher(s, uArgs, order) ==
  IF ~isArgSet(uArgs) THEN [store |-> s, threw |-> TRUE]
  ELSE [store |-> patchArgs(s, AsArgSet(uArgs), order), threw |-> FALSE]

\* ensure(this.getArgs(func, ensure(uArgs, isArgs)), pred)
ensureArgs(s, func, pred, uArgs) ==
  IF ~isArgs(uArgs) THEN [threw |-> TRUE, value |-> Undef]
  ELSE LET args == getArgs(s, func, uArgs)
       IN  IF PredHolds(pred, args) THEN [threw |-> FALSE, value |-> Rec(args)]
           ELSE [threw |-> TRUE, value |-> Undef]

\* Variant: the merged record is handed to the body without the shape check.
makeDispatcherUnchecked(s, functionName, pred, uArgs) ==
  IF ~isArgs(uArgs) THEN [store |-> s, threw |-> TRUE, called |-> FALSE, bodyArgs |-> Undef]
  ELSE [store |-> s, threw |-> FALSE, called |-> TRUE,
        bodyArgs |-> Rec(getArgs(s, functionName, uArgs))]

\* (uArgs) => functionBody(denops, this.ensureArgs(functionName, isArgs, uArgs))
makeDispatcher(s, functionName, pred, uArgs) ==
  LET e == ensureArgs(s, functionName, pred, uArgs)
  IN  [store |-> s, threw |-> e.threw, called |-> ~e.threw, bodyArgs |-> e.value]

(***************************************************************************)
(* State.  store is the Map; pre, op, inp and out record the last call:    *)
(* the store it started from, its name, its inputs and its outcome.        *)
(***************************************************************************)
VARIABLES store, pre, op, inp, out, ncalls

vars == <<store, pre, op, inp, out, ncalls>>

\* Outcome of a call: whether it threw, the value it returned, whether the
\* caller-supplied function body ran and the record it was given.
Outcome(threw, ret, called, bodyArgs) ==
  [threw |-> threw, ret |-> ret, called |-> called, bodyArgs |-> bodyArgs]

Done == Outcome(FALSE, Undef, FALSE, Undef)

Thrown == Outcome(TRUE, Undef, FALSE, Undef)

\* new ArgStore(): #store = new Map()
Init ==
  /\ store = EmptyRec
  /\ pre = EmptyRec
  /\ op = "new"
  /\ inp = EmptyRec
  /\ out = Done
  /\ ncalls = 0

SetFuncArg ==
  \E func \in Funcs, arg \in ArgNames, value \in Vals :
    /\ ncalls < MaxCalls
    /\ store' = setFuncArg(store, func, arg, value)
    /\ pre' = store
    /\ op' = "setFuncArg"
    /\ inp' = [func |-> func, arg |-> arg, value |-> value]
    /\ out' = Done
    /\ ncalls' = ncalls + 1

PatchFuncArgs ==
  \E func \in Funcs, args \in PatchRecs :
    /\ ncalls < MaxCalls
    /\ store' = patchFuncArgs(store, func, args)
    /\ pre' = store
    /\ op' = "patchFuncArgs"
    /\ inp' = [func |-> func, args |-> args]
    /\ out' = Done
    /\ ncalls' = ncalls + 1

PatchArgs ==
  \E argSet \in ArgSets :
    \E order \in Orders(DOMAIN argSet) :
      /\ ncalls < MaxCalls
      /\ store' = patchArgs(store, argSet, order)
      /\ pre' = store
      /\ op' = "patchArgs"
      /\ inp' = [argSet |-> argSet]
      /\ out' = Done
      /\ ncalls' = ncalls + 1

\* Variant: the lookup leaves a record behind for the key it read.
GetArgsCreatesRecord ==
  \E func \in Funcs, override \in {Undef} \cup {Rec(r) : r \in PatchRecs} :
    /\ ncalls < MaxCalls
    /\ store' = set(store, func, get(store, func))
    /\ pre' = store
    /\ op' = "getArgs"
    /\ inp' = [func |-> func, override |-> override]
    /\ out' = Outcome(FALSE, Rec(getArgs(store, func, override)), FALSE, Undef)
    /\ ncalls' = ncalls + 1

GetArgs ==
  \E func \in Funcs, override \in {Undef} \cup {Rec(r) : r \in PatchRecs} :
    /\ ncalls < MaxCalls
    /\ store' = store
    /\ pre' = store
    /\ op' = "getArgs"
    /\ inp' = [func |-> func, override |-> override]
    /\ out' = Outcome(FALSE, Rec(getArgs(store, func, override)), FALSE, Undef)
    /\ ncalls' = ncalls + 1

\* A call through a write entry point: it leaves the store r.store and either
\* returns or throws.
Written(r) ==
  /\ ncalls < MaxCalls
  /\ store' = r.store
  /\ pre' = store
  /\ out' = IF r.threw THEN Thrown ELSE Done
  /\ ncalls' = ncalls + 1

SetFuncArgDispatcher ==
  \E uFunc \in {Str(k) : k \in Funcs} \cup NonStrs,
     uArg \in {Str(n) : n \in ArgNames} \cup NonStrs,
     value \in {Num(2)} :
    /\ Written(setFuncArgDispatcher(store, uFunc, uArg, value))
    /\ op' = "setFuncArgDispatcher"
    /\ inp' = [uFunc |-> uFunc, uArg |-> uArg, value |-> value]

PatchFuncArgsDispatcher ==
  \E uFunc \in {Str(k) : k \in Funcs} \cup NonStrs,
     uArgs \in {Rec(r) : r \in PatchRecs} \cup NonRecs :
    /\ Written(patchFuncArgsDispatcher(store, uFunc, uArgs))
    /\ op' = "patchFuncArgsDispatcher"
    /\ inp' = [uFunc |-> uFunc, uArgs |-> uArgs]

PatchArgsDispatcher ==
  \E uArgs \in UArgSets :
    \E order \in IF uArgs.kind = "rec" THEN Orders(DOMAIN uArgs.rec) ELSE {<<>>} :
      /\ Written(patchArgsDispatcher(store, uArgs, order))
      /\ op' = "patchArgsDispatcher"
      /\ inp' = [uArgs |-> uArgs]

Dispatch ==
  \E functionName \in Funcs, pred \in Preds,
     uArgs \in {Rec(r) : r \in PatchRecs} \cup NonRecs :
    LET r == makeDispatcher(store, functionName, pred, uArgs)
    IN  /\ ncalls < MaxCalls
        /\ store' = r.store
        /\ pre' = store
        /\ op' = "makeDispatcher"
        /\ inp' = [functionName |-> functionName, pred |-> pred, uArgs |-> uArgs]
        /\ out' = Outcome(r.threw, Undef, r.called, r.bodyArgs)
        /\ ncalls' = ncalls + 1

Next ==
  \/ SetFuncArg
  \/ PatchFuncArgs
  \/ PatchArgs
  \/ GetArgs
  \/ SetFuncArgDispatcher
  \/ PatchFuncArgsDispatcher
  \/ PatchArgsDispatcher
  \/ Dispatch

Spec == Init /\ [][Next]_vars

(***************************************************************************)
(* Properties.                                                             *)
(***************************************************************************)
\* The layered resolution of one argument name: the override's value if it has
\* the name, else the function record's, else the cross-function record's.
Layered(s, func, o, n) ==
  IF n \in DOMAIN o THEN <<TRUE, o[n]>>
  ELSE IF func \in DOMAIN s /\ n \in DOMAIN s[func] THEN <<TRUE, s[func][n]>>
  ELSE IF CrossFunc \in DOMAIN s /\ n \in DOMAIN s[CrossFunc] THEN <<TRUE, s[CrossFunc][n]>>
  ELSE <<FALSE, Undef>>

\* r is the record that resolves every name as Layered does.
IsEffective(r, s, func, o) ==
  /\ DOMAIN r \subseteq ArgNames
  /\ \A n \in ArgNames :
       /\ (n \in DOMAIN r) = Layered(s, func, o, n)[1]
       /\ n \in DOMAIN r => r[n] = Layered(s, func, o, n)[2]

\* C1: immediately after setFuncArg(k, n, v), from any reachable store and for
\* any key k (the wildcard included), getArgs(k) without an override maps n to v.
C1_SetThenGet ==
  op = "setFuncArg" =>
    LET r == getArgs(store, inp.func, Undef)
    IN  inp.arg \in DOMAIN r /\ r[inp.arg] = inp.value

\* setFuncArg on a function key whose name the wildcard record holds with
\* another value.
C1_Witness ==
  /\ op = "setFuncArg"
  /\ inp.func # CrossFunc
  /\ CrossFunc \in DOMAIN pre
  /\ inp.arg \in DOMAIN pre[CrossFunc]
  /\ pre[CrossFunc][inp.arg] # inp.value

\* C2: getArgs(f) without an override resolves each name n to f's value if f's
\* record has n, else to the wildcard's value if the wildcard record has n, else
\* leaves n out; on a store without writes the result is the empty record.
C2_FunctionOverWildcard ==
  (op = "getArgs" /\ inp.override = Undef) =>
    /\ out.ret.kind = "rec"
    /\ IsEffective(out.ret.rec, store, inp.func, EmptyRec)
    /\ store = EmptyRec => out.ret.rec = EmptyRec

\* getArgs(f) where f's record and the wildcard's hold one name with two values.
C2_Witness ==
  /\ op = "getArgs"
  /\ inp.override = Undef
  /\ inp.func # CrossFunc
  /\ inp.func \in DOMAIN store
  /\ CrossFunc \in DOMAIN store
  /\ \E n \in DOMAIN store[inp.func] \cap DOMAIN store[CrossFunc] :
       store[inp.func][n] # store[CrossFunc][n]

\* C3: getArgs(f, o) maps every name of o to o's value whatever is stored, and
\* resolves every other name as getArgs(f) without an override does.
C3_OverrideWins ==
  (op = "getArgs" /\ inp.override.kind = "rec") =>
    LET o == inp.override.rec
        r == out.ret.rec
        base == getArgs(store, inp.func, Undef)
    IN  /\ out.ret.kind = "rec"
        /\ \A n \in DOMAIN o : n \in DOMAIN r /\ r[n] = o[n]
        /\ \A n \in ArgNames \ DOMAIN o :
             /\ (n \in DOMAIN r) = (n \in DOMAIN base)
             /\ n \in DOMAIN base => r[n] = base[n]
        /\ IsEffective(r, store, inp.func, o)

\* getArgs(f, o) where o names an argument that f's record holds with another value.
C3_Witness ==
  /\ op = "getArgs"
  /\ inp.override.kind = "rec"
  /\ inp.func \in DOMAIN store
  /\ \E n \in DOMAIN inp.override.rec \cap DOMAIN store[inp.func] :
       store[inp.func][n] # inp.override.rec[n]

\* C4: a call of getArgs leaves the store as it was (same keys, same records, no
\* record created), and a second getArgs(k) right after a first returns the
\* same record.
C4_GetArgsReadOnly ==
  [][op' = "getArgs" =>
       /\ store' = store
       /\ DOMAIN store' = DOMAIN store
       /\ (op = "getArgs" /\ inp'.func = inp.func
           /\ inp.override = Undef /\ inp'.override = Undef) => out'.ret = out.ret]_vars

\* getArgs on a key without a record, in a store that holds other records.
C4_Witness ==
  /\ op = "getArgs"
  /\ store # EmptyRec
  /\ inp.func \notin DOMAIN store
  /\ store = pre

\* C5: patchFuncArgs(key, partialRecord) leaves every name of partialRecord
\* mapped to partialRecord's value and keeps every other name the record for
\* key had, with its value, so that getArgs(key) still returns it.
C5_PatchPreservesUnspecified ==
  op = "patchFuncArgs" =>
    LET before == get(pre, inp.func)
        after == get(store, inp.func)
        r == getArgs(store, inp.func, Undef)
    IN  /\ \A n \in DOMAIN inp.args : n \in DOMAIN after /\ after[n] = inp.args[n]
        /\ \A n \in DOMAIN before \ DOMAIN inp.args :
             /\ n \in DOMAIN after /\ after[n] = before[n]
             /\ n \in DOMAIN r /\ r[n] = before[n]

\* C6: after patchFuncArgs(key, partialRecord) with no "old" in partialRecord,
\* the record for key is partialRecord's entries plus the field "old" holding
\* the record key had before the call (the empty record when it had none).
C6_PatchNestsOld ==
  (op = "patchFuncArgs" /\ "old" \notin DOMAIN inp.args) =>
    /\ inp.func \in DOMAIN store
    /\ DOMAIN store[inp.func] = DOMAIN inp.args \cup {"old"}
    /\ \A n \in DOMAIN inp.args : store[inp.func][n] = inp.args[n]
    /\ store[inp.func]["old"] =
         Rec(IF inp.func \in DOMAIN pre THEN pre[inp.func] ELSE EmptyRec)

\* setFuncArg("f", "a", 1) then patchFuncArgs("f", {b: 2}): a non-empty record
\* patched by a non-empty record without "old".
C6_Witness ==
  /\ op = "patchFuncArgs"
  /\ "old" \notin DOMAIN inp.args
  /\ inp.args # EmptyRec
  /\ inp.func \in DOMAIN pre
  /\ pre[inp.func] # EmptyRec
  /\ "old" \notin DOMAIN pre[inp.func]

\* C7: patchArgs(argSet) leaves every key h outside argSet as it was: the same
\* record, none created, and the same getArgs(h) when "_" is outside argSet too.
C7_PatchArgsFrame ==
  op = "patchArgs" =>
    \A h \in Funcs \ DOMAIN inp.argSet :
      /\ (h \in DOMAIN store) = (h \in DOMAIN pre)
      /\ h \in DOMAIN pre => store[h] = pre[h]
      /\ CrossFunc \notin DOMAIN inp.argSet =>
           getArgs(store, h, Undef) = getArgs(pre, h, Undef)

\* patchArgs on some keys, not the wildcard, while one key outside the argSet
\* has a record and another has none.
C7_Witness ==
  /\ op = "patchArgs"
  /\ inp.argSet # EmptyRec
  /\ CrossFunc \notin DOMAIN inp.argSet
  /\ \E h \in Funcs \ DOMAIN inp.argSet : h \in DOMAIN pre /\ pre[h] # EmptyRec

RECURSIVE EachPatchFuncArgs(_, _, _)
\* patchFuncArgs(k, argSet[k]) applied once per key, in the given order.
EachPatchFuncArgs(s, argSet, order) ==
  IF order = <<>> THEN s
  ELSE EachPatchFuncArgs(patchFuncArgs(s, Head(order), argSet[Head(order)]),
                         argSet, Tail(order))

\* C8: patchArgs(argSet) leaves the store that one patchFuncArgs(k, argSet[k])
\* per key of argSet leaves, whatever the order the keys are taken in.
C8_PatchArgsIsEachPatchFuncArgs ==
  op = "patchArgs" =>
    \A order \in Orders(DOMAIN inp.argSet) :
      /\ EachPatchFuncArgs(pre, inp.argSet, order) = store
      /\ patchArgs(pre, inp.argSet, order) = store

\* patchArgs over two keys or more, one of which already has a record.
C8_Witness ==
  /\ op = "patchArgs"
  /\ Cardinality(DOMAIN inp.argSet) >= 2
  /\ \E k \in DOMAIN inp.argSet : k \in DOMAIN pre /\ pre[k] # EmptyRec

\* C9: a dispatcher of makeDispatcher runs the body only when the per-call input
\* is a record and the effective record (wildcard, function record, per-call
\* args) passes the predicate, and hands the body exactly that record; otherwise
\* it throws, the body does not run, and in both cases the store is unchanged.
C9_DispatchValidatesMerged ==
  op = "makeDispatcher" =>
    /\ store = pre
    /\ IF /\ inp.uArgs.kind = "rec"
          /\ PredHolds(inp.pred, getArgs(pre, inp.functionName, inp.uArgs))
       THEN /\ ~out.threw
            /\ out.called
            /\ out.bodyArgs.kind = "rec"
            /\ IsEffective(out.bodyArgs.rec, pre, inp.functionName, inp.uArgs.rec)
       ELSE /\ out.threw
            /\ ~out.called
            /\ out.bodyArgs = Undef

\* A dispatched call whose per-call input is a record but whose merged record
\* fails the declared shape, on a store that holds records.
C9_Witness ==
  /\ op = "makeDispatcher"
  /\ inp.uArgs.kind = "rec"
  /\ store # EmptyRec
  /\ out.threw
  /\ ~out.called

\* C10: the untyped write entry points validate the whole input first: a
\* malformed input throws and leaves the store as it was; a well-formed one
\* leaves the store the direct setFuncArg / patchFuncArgs / patchArgs call leaves.
C10_DispatchersValidateFirst ==
  /\ op = "setFuncArgDispatcher" =>
       IF inp.uFunc.kind = "str" /\ inp.uArg.kind = "str"
       THEN ~out.threw /\ store = setFuncArg(pre, inp.uFunc.str, inp.uArg.str, inp.value)
       ELSE out.threw /\ store = pre
  /\ op = "patchFuncArgsDispatcher" =>
       IF inp.uFunc.kind = "str" /\ inp.uArgs.kind = "rec"
       THEN ~out.threw /\ store = patchFuncArgs(pre, inp.uFunc.str, inp.uArgs.rec)
       ELSE out.threw /\ store = pre
  /\ op = "patchArgsDispatcher" =>
       IF inp.uArgs.kind = "rec" /\ \A k \in DOMAIN inp.uArgs.rec : inp.uArgs.rec[k].kind = "rec"
       THEN /\ ~out.threw
            /\ \A order \in Orders(DOMAIN inp.uArgs.rec) :
                 store = patchArgs(pre, [k \in DOMAIN inp.uArgs.rec |-> inp.uArgs.rec[k].rec], order)
       ELSE out.threw /\ store = pre

\* patchArgsDispatcher given a record in which one key's value is a record and
\* another's is not, on a store that holds records: it throws, nothing patched.
C10_Witness ==
  /\ op = "patchArgsDispatcher"
  /\ inp.uArgs.kind = "rec"
  /\ \E k \in DOMAIN inp.uArgs.rec : inp.uArgs.rec[k].kind = "rec"
  /\ \E k \in DOMAIN inp.uArgs.rec : inp.uArgs.rec[k].kind # "rec"
  /\ out.threw
  /\ pre # EmptyRec
  /\ store = pre

====
